---- MODULE Spec2Model ----
(***************************************************************************)
(* External calendar synchronisation and reconciliation of the workout    *)
(* planner: the two sync orchestrators (calendar_sync.py, caldav_sync.py), *)
(* the batch and single-session sync routes of both providers and the     *)
(* Google -> planner reconciliation that precedes the forward sync.       *)
(*                                                                         *)
(* Provider answers are inputs: every handler draws them from the sets of *)
(* answers the code distinguishes.  A handler runs to completion before   *)
(* its response is returned; the batch handlers are written as one step   *)
(* per loop iteration and nothing else runs while a batch is in progress. *)
(* The interleaving of requests on one session is the subject of the      *)
(* separate specification SpecConc.                                        *)
(*                                                                         *)
(* The routes pass recurrence_exceptions as a trailing argument to the    *)
(* orchestrators; the orchestrator bodies under calendar_sync.py and      *)
(* caldav_sync.py never read it, and the model binds the declared         *)
(* parameters only.                                                        *)
(***************************************************************************)
EXTENDS Integers, Sequences, FiniteSets, TLC

VARIABLES user, db, gen, batch, calls, sync, prev, ret, pass, wrote, io

vars == <<user, db, gen, batch, calls, sync, prev, ret, pass, wrote, io>>

\* ------------------------------------------------------------------ bounds
NumSessions == 2
MaxDay == 1
MaxInst == 1
MaxCreates == 2
NumPasses == 2

Sessions == 1..NumSessions
Days == 1..MaxDay
Passes == 1..NumPasses

\* None / empty string of an Optional[str] event reference.
NoRef == <<>>

\* The id a provider assigns (Google) or uuid4 draws (Apple): fresh per create.
NewRef(p, s, k) == <<p, s, k>>

\* ------------------------------------------------------- pure helpers
RECURSIVE SortedSeq(_)
SortedSeq(S) ==
    IF S = {} THEN <<>>
    ELSE LET m == CHOOSE x \in S : \A y \in S : x <= y
         IN <<m>> \o SortedSeq(S \ {m})

Range(q) == {q[i] : i \in 1..Len(q)}

\* dt.astimezone(paris_tz).date(): an instant late in the UTC day falls on
\* the next civil day in Europe/Paris.
ParisDate(day, late) == IF late THEN day + 1 ELSE day

OstKinds ==
    [k : {"dateTime"}, day : Days, late : BOOLEAN]
    \cup [k : {"date"}, day : Days, late : {FALSE}]
    \cup [k : {"bad", "none"}, day : {1}, late : {FALSE}]

InstanceKinds == [status : {"confirmed", "cancelled"}, ost : OstKinds]

InstanceLists == {L \in SUBSET InstanceKinds : Cardinality(L) <= MaxInst}

CancelledDaysAnyStatus(instances) ==
    {ParisDate(i.ost.day, i.ost.late) : i \in {j \in instances : j.ost.k = "dateTime"}}
    \cup {i.ost.day : i \in {j \in instances : j.ost.k = "date"}}
\* The loop over the listed instances: only cancelled ones contribute, a
\* dateTime is converted to its Paris date, a date is taken as it is, an
\* unparsable dateTime or an instance without original start is skipped.
CancelledDays(instances) ==
    {ParisDate(i.ost.day, i.ost.late) :
        i \in {j \in instances : j.status = "cancelled" /\ j.ost.k = "dateTime"}}
    \cup {i.ost.day :
        i \in {j \in instances : j.status = "cancelled" /\ j.ost.k = "date"}}

\* json.loads(session.recurrence_exceptions) as a set of strings.
ParseExceptions(stored) == Range(stored)

MergeReplace(stored, cancelled) == SortedSeq(cancelled)
MergeAppend(stored, cancelled) == stored \o SortedSeq(cancelled)
\* merged = sorted(existing.union(cancelled_days)); json.dumps(merged)
Merge(stored, cancelled) == SortedSeq(ParseExceptions(stored) \cup cancelled)

\* if cancelled_days: ... session.recurrence_exceptions = json.dumps(merged)
ReconcileWrite(stored, cancelled) ==
    IF cancelled # {} THEN Merge(stored, cancelled) ELSE stored

\* ------------------------------------------------------------ transport
\* create_calendar_event: raises unless the status is 200/201, else the
\* provider's answer, whose "id" the provider assigned.
CreateCalendarEvent(accepted, fresh) ==
    [raised |-> ~accepted, id |-> IF accepted THEN fresh ELSE NoRef]

\* update_calendar_event: raises unless the status is 200, else the answer,
\* whose "id" is the id of the addressed event.
UpdateCalendarEvent(accepted, eventId) ==
    [raised |-> ~accepted, id |-> IF accepted THEN eventId ELSE NoRef]

CreateCaldavEventUnchecked(accepted, uid) == [raised |-> FALSE, id |-> uid]
\* create_caldav_event: event_uid = uuid4(); PUT; raises unless the status is
\* 200/201/204, else returns event_uid.
CreateCaldavEvent(accepted, uid) ==
    [raised |-> ~accepted, id |-> IF accepted THEN uid ELSE NoRef]

\* update_caldav_event: PUT on the same URL; returns the uid it was given.
UpdateCaldavEvent(accepted, uid) ==
    [raised |-> ~accepted, id |-> IF accepted THEN uid ELSE NoRef]

\* ------------------------------------------------------- orchestrators
SyncDecisionSwapped(existing) == IF existing # NoRef THEN "create" ELSE "update"
SyncDecisionAlwaysCreate(existing) == "create"
\* if existing_event_id: update ... else: create
SyncDecision(existing) == IF existing # NoRef THEN "update" ELSE "create"

\* except Exception: return existing_event_id
OnSyncError(existing) == existing

OrchOutcomesG == {"cred_reject", "no_token", "render_fail", "tr_ok", "tr_reject"}
OrchOutcomesA == {"render_fail", "tr_ok", "tr_reject"}

\* One run of an orchestrator: the reference it was given, the transport
\* call it issued (op, target) and the provider's answer to it (ans), whether
\* it ended without an exception inside (ok), the step that failed (fail)
\* and the value it returned.  again: the run directly follows a run for the
\* same session and provider that ended ok.
NoSync ==
    [prov |-> "-", sess |-> 0, given |-> NoRef, op |-> "none", target |-> NoRef,
     ans |-> "none", ok |-> FALSE, fail |-> "none", returned |-> NoRef,
     again |-> FALSE]

Transport(p, s, existing, accepted, op, res) ==
    [NoSync EXCEPT !.prov = p, !.sess = s, !.given = existing, !.op = op,
                   !.target = IF op = "update" THEN existing ELSE NoRef,
                   !.ans = IF accepted THEN "ok" ELSE "rejected",
                   !.ok = ~res.raised,
                   !.fail = IF res.raised THEN "transport" ELSE "none",
                   !.returned = IF res.raised THEN OnSyncError(existing) ELSE res.id]

\* sync_session_to_calendar(refresh_token, ..., existing_event_id, ...)
SyncSessionToCalendar(s, existing, r, fresh) ==
    LET base == [NoSync EXCEPT !.prov = "G", !.sess = s, !.given = existing]
        op == SyncDecision(existing)
    IN  CASE r = "cred_reject" ->
               [base EXCEPT !.fail = "credential", !.returned = OnSyncError(existing)]
          [] r = "no_token" ->
               [base EXCEPT !.fail = "no_token", !.returned = NoRef]
          [] r = "render_fail" ->
               [base EXCEPT !.fail = "render", !.returned = OnSyncError(existing)]
          [] OTHER ->
               Transport("G", s, existing, r = "tr_ok", op,
                         IF op = "update"
                         THEN UpdateCalendarEvent(r = "tr_ok", existing)
                         ELSE CreateCalendarEvent(r = "tr_ok", fresh))

\* sync_session_to_apple_calendar(apple_id, ..., existing_event_uid)
SyncSessionToAppleCalendar(s, existing, r, fresh) ==
    LET base == [NoSync EXCEPT !.prov = "A", !.sess = s, !.given = existing]
        op == SyncDecision(existing)
    IN  CASE r = "render_fail" ->
               [base EXCEPT !.fail = "render", !.returned = OnSyncError(existing)]
          [] OTHER ->
               Transport("A", s, existing, r = "tr_ok", op,
                         IF op = "update"
                         THEN UpdateCaldavEvent(r = "tr_ok", existing)
                         ELSE CreateCaldavEvent(r = "tr_ok", fresh))

Call(op, prov, s, ref, ans) ==
    [op |-> op, prov |-> prov, sess |-> s, ref |-> ref, ans |-> ans]

\* The transport call an orchestrator run issued, as a call-log suffix.
TransportCalls(sy) ==
    IF sy.op = "none" THEN <<>>
    ELSE <<Call(sy.op, sy.prov, sy.sess, sy.target, sy.ans)>>

\* What is remembered of an orchestrator run when the next one starts.
Summary(sy) == [prov |-> sy.prov, sess |-> sy.sess, ok |-> sy.ok]

\* ------------------------------------------------------------- state
NumRecurring == 1
Recurring == 1..NumRecurring

Gone == [exists |-> FALSE, gRef |-> NoRef, aRef |-> NoRef, rec |-> FALSE, exc |-> <<>>]

NoUser == [gConn |-> FALSE, gTok |-> FALSE,
           aConn |-> FALSE, aId |-> FALSE, aPw |-> FALSE, aUrl |-> FALSE]

EmptyRefs == [s \in Sessions |-> NoRef]
NoOutcome == [s \in Sessions |-> "none"]

\* A batch in progress: the sessions still to process, the session objects
\* of the request, the counters of the response, and per session how its
\* iteration ended and what its orchestrator run returned.
IdleBatch ==
    [pc |-> "idle", prov |-> "-", todo |-> <<>>, total |-> 0, synced |-> 0,
     errors |-> <<>>, token |-> FALSE, obj |-> [s \in Sessions |-> Gone],
     loaded |-> {}, unlinked |-> FALSE, outcome |-> NoOutcome,
     returned |-> EmptyRefs]

Response(h, status) ==
    [h |-> h, status |-> status, synced |-> 0, total |-> 0, errors |-> <<>>,
     loaded |-> {}, unlinked |-> FALSE, outcome |-> NoOutcome,
     returned |-> EmptyRefs]

IdlePass == [pc |-> "idle", read |-> <<>>, seen |-> {}]
NoWrites == [init |-> {}, by |-> {}, last |-> 0]

\* io holds the arguments and the outcome of the operation applied last in
\* the specifications of one operation (deletion, the merge of a
\* reconciliation pass, discovery); the request handlers leave it alone.
NoIo == [op |-> "none"]

Init ==
    /\ user = NoUser
    /\ db = [s \in Sessions |->
                [exists |-> TRUE, gRef |-> NoRef, aRef |-> NoRef,
                 rec |-> (s \in Recurring), exc |-> <<>>]]
    /\ gen = [p \in {"G", "A"} |-> [s \in Sessions |-> 0]]
    /\ batch = IdleBatch
    /\ calls = <<>>
    /\ sync = NoSync
    /\ prev = Summary(NoSync)
    /\ ret = Response("none", 0)
    /\ pass = [p \in Passes |-> IdlePass]
    /\ wrote = NoWrites
    /\ io = NoIo

\* The reference stored on the session object a handler works on.
StoredRef(p, s) ==
    LET sr == IF batch.pc = "run" THEN batch.obj[s] ELSE db[s]
    IN  IF p = "G" THEN sr.gRef ELSE sr.aRef

\* ------------------------------------------------------ calendar links
\* google_calendar_callback: the code exchange, then the refresh token check.
GoogleCallback(x) ==
    /\ batch.pc = "idle"
    /\ IF x = "ok"
       THEN /\ user' = [user EXCEPT !.gTok = TRUE, !.gConn = TRUE]
            /\ ret' = Response("g_callback", 200)
       ELSE /\ user' = user
            /\ ret' = Response("g_callback", 400)
    /\ calls' = <<>>
    /\ sync' = NoSync
    /\ UNCHANGED <<db, gen, batch, prev, pass, wrote, io>>

\* disconnect_google_calendar
DisconnectGoogle ==
    /\ batch.pc = "idle"
    /\ user' = [user EXCEPT !.gTok = FALSE, !.gConn = FALSE]
    /\ ret' = Response("g_disconnect", 200)
    /\ calls' = <<>>
    /\ sync' = NoSync
    /\ UNCHANGED <<db, gen, batch, prev, pass, wrote, io>>

\* connect_apple_calendar: discovery raises ("raise"), finds no calendar
\* ("none") or some ("some"); url: the request carries a calendar_url.
ConnectApple(d, url) ==
    /\ batch.pc = "idle"
    /\ IF d = "raise" \/ (d = "none" /\ ~url)
       THEN /\ user' = user
            /\ ret' = Response("a_connect", 400)
       ELSE /\ user' = [user EXCEPT !.aId = TRUE, !.aPw = TRUE, !.aUrl = TRUE,
                                    !.aConn = TRUE]
            /\ ret' = Response("a_connect", 200)
    /\ calls' = <<>>
    /\ sync' = NoSync
    /\ UNCHANGED <<db, gen, batch, prev, pass, wrote, io>>

\* disconnect_apple_calendar
DisconnectApple ==
    /\ batch.pc = "idle"
    /\ user' = [user EXCEPT !.aId = FALSE, !.aPw = FALSE, !.aUrl = FALSE,
                            !.aConn = FALSE]
    /\ ret' = Response("a_disconnect", 200)
    /\ calls' = <<>>
    /\ sync' = NoSync
    /\ UNCHANGED <<db, gen, batch, prev, pass, wrote, io>>

\* ------------------------------------------------------ reconciliation
\* get_calendar_event: the event, None on "not found", an exception otherwise.
FetchOutcomes == {"found", "notfound", "error"}

\* list_calendar_event_instances: an exception, or the listed instances.
ListOutcomes == {[err |-> TRUE, inst |-> {}]} \cup [err : {FALSE}, inst : InstanceLists]
NoList == [err |-> FALSE, inst |-> {}]

NeedsListingAlways(sr) == TRUE
\* if session.recurrence_type:
NeedsListing(sr) == sr.rec

CascadeAppleNever(u, sr) == FALSE
\* if current_user.apple_calendar_connected and ...apple_id and ...url
\*    and session.apple_calendar_event_uid
CascadeApple(u, sr) == u.aConn /\ u.aId /\ u.aUrl /\ sr.aRef # NoRef

\* The calls of the "ev is None" branch, in program order: the cascaded
\* delete of the Apple event, then db.delete(session).  The db_delete entry
\* keeps the Apple reference of the deleted record.
DeletedCalls(s, sr, cascade, ad) ==
    (IF cascade
     THEN <<Call("delete", "A", s, sr.aRef, IF ad THEN "ok" ELSE "failed")>>
     ELSE <<>>)
    \o <<Call("db_delete", "-", s, sr.aRef, "ok")>>

ReconcileListFirst(s, sr, u, token, f, l, ad) ==
    IF ~(token /\ sr.gRef # NoRef)
    THEN [kind |-> "skipped", exc |-> sr.exc, calls |-> <<>>]
    ELSE LET fetch == Call("fetch", "G", s, sr.gRef, f)
             list == Call("list", "G", s, sr.gRef, IF l.err THEN "error" ELSE "ok")
             cancelled == CancelledDays(l.inst)
             rec == <<list>> \o (IF cancelled # {}
                                 THEN <<Call("exc_write", "-", s, NoRef, "ok")>>
                                 ELSE <<>>)
         IN  CASE f = "error" ->
                    [kind |-> "error", exc |-> sr.exc, calls |-> <<fetch>>]
               [] f = "notfound" ->
                    [kind |-> "deleted", exc |-> ReconcileWrite(sr.exc, cancelled),
                     calls |-> <<fetch>> \o rec
                               \o DeletedCalls(s, sr, CascadeApple(u, sr), ad)]
               [] f = "found" /\ ~sr.rec ->
                    [kind |-> "done", exc |-> sr.exc, calls |-> <<fetch>>]
               [] f = "found" /\ sr.rec /\ l.err ->
                    [kind |-> "error", exc |-> sr.exc, calls |-> <<fetch, list>>]
               [] OTHER ->
                    [kind |-> "done", exc |-> ReconcileWrite(sr.exc, cancelled),
                     calls |-> <<fetch>> \o rec]
\* The reconciliation block of sync_all_sessions / sync_single_session up to
\* the merge: what it decides for the session, the exception list it leaves
\* on the session object, and the calls it made.
Reconcile(s, sr, u, token, f, l, ad) ==
    IF ~(token /\ sr.gRef # NoRef)
    THEN [kind |-> "skipped", exc |-> sr.exc, calls |-> <<>>]
    ELSE LET fetch == Call("fetch", "G", s, sr.gRef, f)
             list == Call("list", "G", s, sr.gRef, IF l.err THEN "error" ELSE "ok")
             cancelled == CancelledDays(l.inst)
         IN  CASE f = "error" ->
                    [kind |-> "error", exc |-> sr.exc, calls |-> <<fetch>>]
               [] f = "notfound" ->
                    [kind |-> "deleted", exc |-> sr.exc,
                     calls |-> <<fetch>> \o DeletedCalls(s, sr, CascadeApple(u, sr), ad)]
               [] f = "found" /\ ~NeedsListing(sr) ->
                    [kind |-> "done", exc |-> sr.exc, calls |-> <<fetch>>]
               [] f = "found" /\ NeedsListing(sr) /\ l.err ->
                    [kind |-> "error", exc |-> sr.exc, calls |-> <<fetch, list>>]
               [] OTHER ->
                    [kind |-> "done", exc |-> ReconcileWrite(sr.exc, cancelled),
                     calls |-> <<fetch, list>>
                               \o (IF cancelled # {}
                                   THEN <<Call("exc_write", "-", s, NoRef, "ok")>>
                                   ELSE <<>>)]

\* The answers a handler needs for session record sr, given its token.
FetchChoices(sr, token) ==
    IF token /\ sr.gRef # NoRef THEN FetchOutcomes ELSE {"na"}
ListChoices(sr, f) ==
    IF f = "found" /\ NeedsListing(sr) THEN ListOutcomes ELSE {NoList}
DeleteChoices(u, sr, f) ==
    IF f = "notfound" /\ u.aConn /\ sr.aRef # NoRef THEN BOOLEAN ELSE {FALSE}
OrchChoices(outcomes, p, s, existing, f) ==
    IF f = "notfound" THEN {"na"}
    ELSE {o \in outcomes :
            o = "tr_ok" /\ existing = NoRef => gen[p][s] < MaxCreates}

\* A deleted session never syncs again: its create counters are dropped.
GenForget(s) == [p \in {"G", "A"} |-> [gen[p] EXCEPT ![s] = 0]]

\* The creates a provider has confirmed for a session.
GenAfter(p, s, sy) ==
    IF sy.ans = "ok" /\ sy.op = "create"
    THEN [gen EXCEPT ![p][s] = gen[p][s] + 1]
    ELSE gen

Run(sy) ==
    [sy EXCEPT !.again = prev.ok /\ prev.prov = sy.prov /\ prev.sess = sy.sess]

WriteBackBoth(sr, p, ref) == [sr EXCEPT !.gRef = ref, !.aRef = ref]
\* session.google_calendar_event_id = event_id /
\* session.apple_calendar_event_uid = event_uid: the one field of the session
\* object a forward sync assigns.
WriteBack(sr, p, ref) ==
    IF p = "G" THEN [sr EXCEPT !.gRef = ref] ELSE [sr EXCEPT !.aRef = ref]

\* ------------------------------------------------- single-session sync
\* if event_id: session.<ref> = event_id; db.commit()
SingleStoreAlways(eventId, stored) == eventId
SingleStore(eventId, stored) == IF eventId # NoRef THEN eventId ELSE stored

\* if event_id: return success ... raise HTTPException(500)
SingleStatus(eventId) == IF eventId # NoRef THEN 200 ELSE 500

\* sync_single_session (Google).  r1: the refresh of the reconciliation
\* block; f, l, ad: the fetch, the instance listing and the cascaded Apple
\* delete; o: the orchestrator run of the forward sync.
SyncSingleGoogle(s, r1, f, l, ad, o) ==
    /\ batch.pc = "idle"
    /\ user.gConn /\ user.gTok
    /\ db[s].exists
    /\ LET sr == db[s]
           rc == IF r1 = "reject"
                 THEN [kind |-> "skipped", exc |-> sr.exc, calls |-> <<>>]
                 ELSE Reconcile(s, sr, user, r1 = "ok", f, l, ad)
       IN  IF rc.kind = "deleted"
           THEN /\ db' = [db EXCEPT ![s] = Gone]
                /\ calls' = rc.calls
                /\ ret' = Response("singleG", 404)
                /\ sync' = NoSync
                /\ gen' = GenForget(s)
                /\ prev' = prev
           ELSE LET sy == Run(SyncSessionToCalendar(s, sr.gRef, o,
                                                    NewRef("G", s, gen["G"][s])))
                IN  /\ db' = [db EXCEPT ![s] =
                                 WriteBack([sr EXCEPT !.exc = rc.exc], "G",
                                           SingleStore(sy.returned, sr.gRef))]
                    /\ calls' = rc.calls \o TransportCalls(sy)
                    /\ sync' = sy
                    /\ prev' = Summary(sy)
                    /\ gen' = GenAfter("G", s, sy)
                    /\ ret' = Response("singleG", SingleStatus(sy.returned))
    /\ UNCHANGED <<user, batch, pass, wrote, io>>

\* sync_single_session_apple
SyncSingleApple(s, o) ==
    /\ batch.pc = "idle"
    /\ user.aConn
    /\ db[s].exists
    /\ LET sr == db[s]
           sy == Run(SyncSessionToAppleCalendar(s, sr.aRef, o,
                                                NewRef("A", s, gen["A"][s])))
       IN  /\ db' = [db EXCEPT ![s] =
                        WriteBack(sr, "A", SingleStore(sy.returned, sr.aRef))]
           /\ calls' = TransportCalls(sy)
           /\ sync' = sy
           /\ prev' = Summary(sy)
           /\ gen' = GenAfter("A", s, sy)
           /\ ret' = Response("singleA", SingleStatus(sy.returned))
    /\ UNCHANGED <<user, batch, pass, wrote, io>>

\* The requests that end before any work: link not connected, no session.
SyncRefused(h, s) ==
    /\ batch.pc = "idle"
    /\ LET linked == IF h \in {"singleG", "batchG"}
                     THEN user.gConn /\ user.gTok ELSE user.aConn
       IN  /\ ~linked \/ (h \in {"singleG", "singleA"} /\ ~db[s].exists)
           /\ ret' = Response(h, IF ~linked THEN 400 ELSE 404)
    /\ calls' = <<>>
    /\ sync' = NoSync
    /\ UNCHANGED <<user, db, gen, batch, prev, pass, wrote, io>>

\* ----------------------------------------------------------- batch sync
\* if event_id and event_id != session.<ref>: session.<ref> = event_id
BatchStore(eventId, stored) ==
    IF eventId # NoRef /\ eventId # stored THEN eventId ELSE stored

\* ... synced_count += 1
BatchCountsReturned(eventId, stored) == eventId # NoRef
BatchCounts(eventId, stored) == eventId # NoRef /\ eventId # stored

BatchRestFailFast(todo, failed) == IF failed THEN <<>> ELSE Tail(todo)
\* for session in sessions: try: ... except Exception as e: errors.append(...)
\* The loop goes on with the next session whether or not this one failed.
BatchRest(todo, failed) == Tail(todo)

\* errors.append(f"Session {session.id}: {str(e)}")
ErrorEntry(s) == [sess |-> s]

\* How the iteration of a session ended, from its orchestrator run.
RunOutcome(sy) ==
    IF sy.ok THEN "ok" ELSE IF sy.fail = "transport" THEN "rejected" ELSE "failed"

\* sync_all_sessions / sync_all_sessions_apple up to the loop.  r0: the
\* refresh whose token the Google reconciliation reuses.
BatchStart(p, r0) ==
    /\ batch.pc = "idle"
    /\ IF p = "G" THEN user.gConn /\ user.gTok ELSE user.aConn /\ r0 = "ok"
    /\ LET planned == {s \in Sessions : db[s].exists}
       IN  batch' = [IdleBatch EXCEPT
                        !.pc = "run", !.prov = p,
                        !.todo = SortedSeq(planned),
                        !.total = Cardinality(planned),
                        !.token = (p = "G" /\ r0 = "ok"),
                        !.obj = db, !.loaded = planned,
                        !.unlinked = \A s \in planned :
                            (IF p = "G" THEN db[s].gRef ELSE db[s].aRef) = NoRef]
    /\ calls' = <<>>
    /\ ret' = Response("none", 0)
    /\ sync' = NoSync
    /\ UNCHANGED <<user, db, gen, prev, pass, wrote, io>>

\* One iteration of the loop of sync_all_sessions (Google).
BatchStepG(f, l, ad, o) ==
    /\ batch.pc = "run" /\ batch.prov = "G" /\ batch.todo # <<>>
    /\ LET s == Head(batch.todo)
           sr == batch.obj[s]
           rc == Reconcile(s, sr, user, batch.token, f, l, ad)
       IN  CASE rc.kind = "deleted" ->
                  /\ batch' = [batch EXCEPT !.todo = BatchRest(batch.todo, FALSE),
                                            !.obj[s] = Gone,
                                            !.outcome[s] = "deleted"]
                  /\ calls' = rc.calls
                  /\ sync' = NoSync
                  /\ UNCHANGED <<gen, prev>>
             [] rc.kind = "error" ->
                  /\ batch' = [batch EXCEPT !.todo = BatchRest(batch.todo, TRUE),
                                            !.errors = Append(@, ErrorEntry(s)),
                                            !.outcome[s] = "recon_error"]
                  /\ calls' = rc.calls
                  /\ sync' = NoSync
                  /\ UNCHANGED <<gen, prev>>
             [] OTHER ->
                  LET sy == Run(SyncSessionToCalendar(s, sr.gRef, o,
                                                      NewRef("G", s, gen["G"][s])))
                  IN  /\ batch' = [batch EXCEPT
                            !.todo = BatchRest(batch.todo, ~sy.ok),
                            !.obj[s] = WriteBack([sr EXCEPT !.exc = rc.exc], "G",
                                                 BatchStore(sy.returned, sr.gRef)),
                            !.synced = IF BatchCounts(sy.returned, sr.gRef)
                                       THEN @ + 1 ELSE @,
                            !.outcome[s] = RunOutcome(sy),
                            !.returned[s] = sy.returned]
                      /\ calls' = rc.calls \o TransportCalls(sy)
                      /\ sync' = sy
                      /\ prev' = Summary(sy)
                      /\ gen' = GenAfter("G", s, sy)
    /\ UNCHANGED <<user, db, ret, pass, wrote, io>>

\* One iteration of the loop of sync_all_sessions_apple.
BatchStepA(o) ==
    /\ batch.pc = "run" /\ batch.prov = "A" /\ batch.todo # <<>>
    /\ LET s == Head(batch.todo)
           sr == batch.obj[s]
           sy == Run(SyncSessionToAppleCalendar(s, sr.aRef, o,
                                                NewRef("A", s, gen["A"][s])))
       IN  /\ batch' = [batch EXCEPT
                 !.todo = BatchRest(batch.todo, ~sy.ok),
                 !.obj[s] = WriteBack(sr, "A", BatchStore(sy.returned, sr.aRef)),
                 !.synced = IF BatchCounts(sy.returned, sr.aRef) THEN @ + 1 ELSE @,
                 !.outcome[s] = RunOutcome(sy),
                 !.returned[s] = sy.returned]
           /\ calls' = TransportCalls(sy)
           /\ sync' = sy
           /\ prev' = Summary(sy)
           /\ gen' = GenAfter("A", s, sy)
    /\ UNCHANGED <<user, db, ret, pass, wrote, io>>

\* db.commit() and the response {synced, total, errors}.
BatchFinish ==
    /\ batch.pc = "run" /\ batch.todo = <<>>
    /\ db' = batch.obj
    /\ ret' = [Response(IF batch.prov = "G" THEN "batchG" ELSE "batchA", 200)
                 EXCEPT !.synced = batch.synced, !.total = batch.total,
                        !.errors = batch.errors, !.loaded = batch.loaded,
                        !.unlinked = batch.unlinked,
                        !.outcome = batch.outcome,
                        !.returned = batch.returned]
    /\ gen' = [p \in {"G", "A"} |->
                 [s \in Sessions |-> IF batch.obj[s].exists THEN gen[p][s] ELSE 0]]
    /\ batch' = IdleBatch
    /\ calls' = <<>>
    /\ sync' = NoSync
    /\ UNCHANGED <<user, prev, pass, wrote, io>>

\* ----------------------------------------------------------- the system
BatchHead == IF batch.todo # <<>> THEN Head(batch.todo) ELSE 1

Next ==
    \/ \E x \in {"ok", "rejected", "no_refresh"} : GoogleCallback(x)
    \/ DisconnectGoogle
    \/ \E d \in {"raise", "none", "some"}, url \in BOOLEAN : ConnectApple(d, url)
    \/ DisconnectApple
    \/ \E h \in {"singleG", "singleA", "batchG", "batchA"}, s \in Sessions :
         SyncRefused(h, s)
    \/ \E s \in Sessions, r1 \in {"ok", "reject", "no_token"} :
         \E f \in FetchChoices(db[s], r1 = "ok") :
           \E l \in ListChoices(db[s], f), ad \in DeleteChoices(user, db[s], f) :
             \E o \in OrchChoices(OrchOutcomesG, "G", s, db[s].gRef, f) :
               SyncSingleGoogle(s, r1, f, l, ad, o)
    \/ \E s \in Sessions :
         \E o \in OrchChoices(OrchOutcomesA, "A", s, db[s].aRef, "na") :
           SyncSingleApple(s, o)
    \/ \E p \in {"G", "A"}, r0 \in {"ok", "fail"} : BatchStart(p, r0)
    \/ \E f \in FetchChoices(batch.obj[BatchHead], batch.token) :
         \E l \in ListChoices(batch.obj[BatchHead], f),
            ad \in DeleteChoices(user, batch.obj[BatchHead], f) :
           \E o \in OrchChoices(OrchOutcomesG, "G", BatchHead,
                                batch.obj[BatchHead].gRef, f) :
             BatchStepG(f, l, ad, o)
    \/ \E o \in OrchChoices(OrchOutcomesA, "A", BatchHead,
                            batch.obj[BatchHead].aRef, "na") :
         BatchStepA(o)
    \/ BatchFinish

Spec == Init /\ [][Next]_vars

\* ------------------------------------- concurrent reconciliation passes
\* Requests that reconcile session 1 at the same time.  A pass loads the
\* session row (its stored exception list), awaits the provider, merges the
\* cancelled dates it observed into what it loaded and commits the result.
ConcSession == CHOOSE s \in Recurring : TRUE

InitConc ==
    /\ user = [NoUser EXCEPT !.gConn = TRUE, !.gTok = TRUE]
    /\ \E e \in {SortedSeq(S) : S \in SUBSET (1..(MaxDay + 1))} :
         /\ db = [s \in Sessions |->
                    [exists |-> TRUE,
                     gRef |-> IF s = ConcSession THEN NewRef("G", s, 0) ELSE NoRef,
                     aRef |-> NoRef, rec |-> (s \in Recurring),
                     exc |-> IF s = ConcSession THEN e ELSE <<>>]]
         /\ wrote = [NoWrites EXCEPT !.init = Range(e)]
    /\ gen = [p \in {"G", "A"} |->
                [s \in Sessions |-> IF p = "G" /\ s = ConcSession THEN 1 ELSE 0]]
    /\ batch = IdleBatch
    /\ calls = <<>>
    /\ sync = NoSync
    /\ prev = Summary(NoSync)
    /\ ret = Response("none", 0)
    /\ pass = [p \in Passes |-> IdlePass]
    /\ io = NoIo

\* session = db.query(WorkoutSession)...first()
PassLoad(p) ==
    /\ pass[p].pc = "idle"
    /\ pass' = [pass EXCEPT ![p] = [pc |-> "loaded", read |-> db[ConcSession].exc,
                                    seen |-> {}]]
    /\ UNCHANGED <<user, db, gen, batch, calls, sync, prev, ret, wrote, io>>

\* The listing is answered; the merge is computed from the loaded value and
\* committed when a cancelled date was observed.
PassWrite(p, l) ==
    /\ pass[p].pc = "loaded"
    /\ LET cancelled == IF l.err THEN {} ELSE CancelledDays(l.inst)
           merged == ReconcileWrite(pass[p].read, cancelled)
       IN  /\ pass' = [pass EXCEPT ![p].pc = "done", ![p].seen = cancelled]
           /\ IF cancelled # {}
              THEN /\ db' = [db EXCEPT ![ConcSession].exc = merged]
                   /\ wrote' = [wrote EXCEPT !.by = @ \cup Range(merged), !.last = p]
              ELSE UNCHANGED <<db, wrote>>
    /\ UNCHANGED <<user, gen, batch, calls, sync, prev, ret, io>>

NextConc ==
    \/ \E p \in Passes : PassLoad(p)
    \/ \E p \in Passes, l \in ListOutcomes : PassWrite(p, l)

SpecConc == InitConc /\ [][NextConc]_vars

\* ---------------------------------------------------------- properties
CallIdx == 1..Len(calls)

\* C1: a forward sync handed no reference never issues an update and, when it
\* reaches the transport, issues a create; handed a reference it never issues
\* a create and, when it reaches the transport, updates exactly that
\* reference.
C1_CreateOrUpdate ==
    /\ sync.prov # "-" /\ sync.given = NoRef =>
          /\ sync.op # "update"
          /\ sync.fail \in {"none", "transport"} => sync.op = "create"
    /\ sync.prov # "-" /\ sync.given # NoRef =>
          /\ sync.op # "create"
          /\ sync.fail \in {"none", "transport"} =>
                sync.op = "update" /\ sync.target = sync.given

C1_Witness ==
    /\ sync.op = "update" /\ sync.target = sync.given /\ sync.given # NoRef
    /\ sync.prov = "A"

\* C2: a forward sync that fails at any step returns the reference it was
\* given, and the stored reference still equals it.
C2_FailureReturnsGiven ==
    sync.prov # "-" /\ sync.fail # "none" =>
        /\ sync.returned = sync.given
        /\ StoredRef(sync.prov, sync.sess) = sync.given

\* C3: a forward sync that follows a successful forward sync of the same
\* session on the same provider, and succeeds too, is an update of the stored
\* reference, which it leaves as it was.
C3_ResyncUpdates ==
    sync.again /\ sync.ok =>
        /\ sync.op = "update"
        /\ sync.given # NoRef
        /\ sync.target = sync.given
        /\ StoredRef(sync.prov, sync.sess) = sync.given

C3_Witness ==
    /\ sync.again /\ sync.ok /\ sync.op = "update"
    /\ StoredRef(sync.prov, sync.sess) = sync.given

\* C4: every stored reference is a reference whose create the provider
\* confirmed, and a rejected create leaves the stored reference empty.
C4_RefsConfirmed ==
    /\ \A s \in Sessions : \A p \in {"G", "A"} :
          LET r == IF p = "G" THEN db[s].gRef ELSE db[s].aRef
          IN  \/ r = NoRef
              \/ \E k \in 0..MaxCreates : k < gen[p][s] /\ r = NewRef(p, s, k)
    /\ sync.op = "create" /\ sync.ans = "rejected" =>
          StoredRef(sync.prov, sync.sess) = NoRef

C4_Witness ==
    /\ sync.op = "create" /\ sync.ans = "rejected"
    /\ StoredRef(sync.prov, sync.sess) = NoRef
    /\ \E s \in Sessions : db[s].aRef # NoRef

\* C5 as stated: once the concurrent passes have ended, every date stored
\* before them and every date a pass wrote is in the stored list.
PassesEnded ==
    /\ \A p \in Passes : pass[p].pc # "loaded"
    /\ \E p \in Passes : pass[p].pc = "done"

C5_NoDateDropped ==
    PassesEnded =>
        (wrote.init \cup wrote.by) \subseteq Range(db[ConcSession].exc)

\* C5: every date stored before the passes stays stored, and the stored list
\* is the union of what the pass that committed last had loaded and the
\* cancelled dates it observed; a date another pass committed between that
\* load and that commit can be overwritten.
C5_LastWriterWins ==
    /\ wrote.init \subseteq Range(db[ConcSession].exc)
    /\ wrote.last # 0 =>
          LET w == pass[wrote.last]
          IN  db[ConcSession].exc = SortedSeq(Range(w.read) \cup w.seen)

C5_Witness ==
    /\ \A p \in Passes : pass[p].pc = "done" /\ pass[p].seen # {}
    /\ \A p, q \in Passes : pass[p].read = pass[q].read
    /\ wrote.init # {}
    /\ wrote.init \subseteq Range(db[ConcSession].exc)

\* C6: when the provider answers that the linked event does not exist, the
\* session is removed, and neither the instance listing nor a write of the
\* exception list happens in that pass.
C6_NotFoundDeletes ==
    \A i \in CallIdx :
        calls[i].op = "fetch" /\ calls[i].ans = "notfound" =>
            /\ \E k \in CallIdx :
                  calls[k].op = "db_delete" /\ calls[k].sess = calls[i].sess
            /\ \A k \in CallIdx : calls[k].op \notin {"list", "exc_write"}
            /\ (IF batch.pc = "run" THEN batch.obj ELSE db)[calls[i].sess] = Gone

C6_Witness ==
    \E i \in CallIdx :
        /\ calls[i].op = "fetch" /\ calls[i].ans = "notfound"
        /\ db[calls[i].sess] = Gone

\* C7: when a session that holds an Apple reference is removed by deletion
\* detection and the user has an Apple link, the Apple delete of that
\* reference is issued before the removal and no create or update is issued
\* in the pass.
C7_CascadeBeforeRemoval ==
    \A k \in CallIdx :
        calls[k].op = "db_delete" /\ calls[k].ref # NoRef /\ user.aConn =>
            /\ \E j \in CallIdx :
                  /\ j < k
                  /\ calls[j].op = "delete" /\ calls[j].prov = "A"
                  /\ calls[j].ref = calls[k].ref
            /\ \A i \in CallIdx : calls[i].op \notin {"create", "update"}

C7_Witness ==
    \E k \in CallIdx :
        /\ calls[k].op = "db_delete" /\ calls[k].ref # NoRef /\ user.aConn
        /\ \E j \in 1..(k - 1) : calls[j].op = "delete" /\ calls[j].prov = "A"

\* C8: when the fetch or the listing of a reconciliation step fails, the
\* exception list is not written and the forward sync of that session still
\* runs, in the batch and in the single-session flow.
C8_ReconErrorStillSyncs ==
    \A i \in CallIdx :
        calls[i].op \in {"fetch", "list"} /\ calls[i].ans = "error" =>
            /\ \A k \in CallIdx : calls[k].op # "exc_write"
            /\ sync.prov = "G" /\ sync.sess = calls[i].sess

\* C9: a batch processes every session it loaded whatever happened to the
\* others: the total is the number of sessions loaded, every session not
\* stopped by its own reconciliation had its forward sync run, and the
\* reference that run returned is the one stored.
BatchReturned == ret.h \in {"batchG", "batchA"}

C9_BatchGoesOn ==
    BatchReturned =>
        /\ ret.total = Cardinality(ret.loaded)
        /\ \A j \in ret.loaded :
              /\ ret.outcome[j] # "none"
              /\ ret.outcome[j] \in {"ok", "rejected", "failed"}
                 /\ ret.returned[j] # NoRef =>
                    ret.returned[j] = (IF ret.h = "batchG" THEN db[j].gRef
                                       ELSE db[j].aRef)

C9_Witness ==
    /\ BatchReturned /\ ret.total = NumSessions
    /\ ret.outcome[1] \in {"rejected", "failed"}
    /\ ret.outcome[NumSessions] = "ok"
    /\ ret.returned[NumSessions] # NoRef

\* C10: a batch over unlinked sessions in which the transport rejects one
\* session and accepts the others reports an error entry for that session
\* and counts the others as synced.
C10_RejectedReported ==
    BatchReturned /\ ret.unlinked =>
        \A i \in ret.loaded :
            (/\ ret.outcome[i] = "rejected"
             /\ \A j \in ret.loaded \ {i} : ret.outcome[j] = "ok") =>
                /\ \E k \in 1..Len(ret.errors) : ret.errors[k] = ErrorEntry(i)
                /\ ret.synced = Cardinality(ret.loaded) - 1
                /\ ret.total = Cardinality(ret.loaded)

\* C11: when the provider rejects the refresh token during a Google sync,
\* the caller is told: the single-session request does not answer success
\* and the batch reports an error for the session.
C11_CredentialErrorRaised ==
    /\ ret.h = "singleG" /\ sync.prov = "G" /\ sync.fail = "credential" =>
          ret.status # 200
    /\ batch.pc = "run" /\ sync.prov = "G" /\ sync.fail = "credential" =>
          \E k \in 1..Len(batch.errors) : batch.errors[k] = ErrorEntry(sync.sess)

\* C12: a single-session sync whose create or update the provider rejected
\* ends as a request failure, whether or not the session had a stored
\* reference.
C12_RejectedSingleFails ==
    /\ ret.h \in {"singleG", "singleA"}
    /\ sync.prov # "-" /\ sync.fail = "transport"
    => ret.status # 200

\* ------------------------------------------------ provider-level operations
\* The specifications below apply one operation of calendar_sync.py /
\* caldav_sync.py / the reconciliation merge to inputs drawn from bounded
\* sets; the request handlers do not run in them.
handlerVars == <<user, db, gen, batch, calls, sync, prev, ret, pass, wrote>>

HandlersIdle ==
    /\ user = NoUser
    /\ db = [s \in Sessions |->
                [exists |-> TRUE, gRef |-> NoRef, aRef |-> NoRef,
                 rec |-> (s \in Recurring), exc |-> <<>>]]
    /\ gen = [p \in {"G", "A"} |-> [s \in Sessions |-> 0]]
    /\ batch = IdleBatch
    /\ calls = <<>>
    /\ sync = NoSync
    /\ prev = Summary(NoSync)
    /\ ret = Response("none", 0)
    /\ pass = [p \in Passes |-> IdlePass]
    /\ wrote = NoWrites

\* ------------------------------------------------------------- deletion
MaxEvents == 2
Events == 1..MaxEvents

\* The status a provider answers to DELETE: an event it holds is deleted
\* (204; a CalDAV server may also answer 200) unless the request fails
\* (500); an event it does not hold is "not found" (404; the REST provider
\* answers 410 for an event that was already deleted).
DeleteAnswers(p, present) ==
    IF present
    THEN (IF p = "G" THEN {204} ELSE {200, 204}) \cup {500}
    ELSE (IF p = "G" THEN {404, 410} ELSE {404})

\* delete_calendar_event: return response.status_code == 204
DeleteCalendarEvent(status) == status = 204

\* delete_caldav_event: return response.status_code in (200, 204, 404)
DeleteCaldavEvent(status) == status \in {200, 204, 404}

DeleteResult(p, status) ==
    IF p = "G" THEN DeleteCalendarEvent(status) ELSE DeleteCaldavEvent(status)

InitDelete ==
    /\ HandlersIdle
    /\ \E held \in [{"G", "A"} -> SUBSET Events] :
         io = [op |-> "none", held |-> held, prov |-> "-", ev |-> 0,
               status |-> 0, result |-> FALSE, repeat |-> FALSE]

\* One DELETE of event e at provider p, answered with status st.  repeat:
\* the same event was the target of the previous delete at that provider.
DeleteEvent(p, e, st) ==
    /\ st \in DeleteAnswers(p, e \in io.held[p])
    /\ io' = [op |-> "delete",
              held |-> IF st \in {200, 204}
                       THEN [io.held EXCEPT ![p] = @ \ {e}] ELSE io.held,
              prov |-> p, ev |-> e, status |-> st,
              result |-> DeleteResult(p, st),
              repeat |-> (io.op = "delete" /\ io.prov = p /\ io.ev = e)]
    /\ UNCHANGED handlerVars

NextDelete ==
    \E p \in {"G", "A"}, e \in Events, st \in {200, 204, 404, 410, 500} :
        DeleteEvent(p, e, st)

SpecDelete == InitDelete /\ [][NextDelete]_vars

\* C13: a delete that the provider answers with "not found" reports success,
\* at either provider, the first time and when repeated.
C13_DeleteNotFoundSucceeds ==
    io.op = "delete" /\ io.status = 404 => io.result

\* ------------------------------------------- one session's reconciliation
\* Successive reconciliation passes on one linked recurring session whose
\* event the provider still holds: each pass is handed an instance listing.
MaxListed == 2
ListedSets == {L \in SUBSET InstanceKinds : Cardinality(L) <= MaxListed}

ReconSession(stored) ==
    [exists |-> TRUE, gRef |-> NewRef("G", ConcSession, 0), aRef |-> NoRef,
     rec |-> TRUE, exc |-> stored]

InitRecon ==
    /\ HandlersIdle
    /\ \E e \in {SortedSeq(S) : S \in SUBSET (1..(MaxDay + 1))} :
         io = [op |-> "none", stored |-> e, before |-> e, inst |-> {},
               written |-> FALSE, same |-> FALSE]

\* The reconciliation block applied to the stored list and the listing L.
\* written: session.recurrence_exceptions was assigned; same: L is the
\* listing the previous pass was handed.
ReconcilePass(L) ==
    /\ LET rc == Reconcile(ConcSession, ReconSession(io.stored), NoUser, TRUE,
                           "found", [err |-> FALSE, inst |-> L], FALSE)
       IN  io' = [op |-> "reconcile", stored |-> rc.exc, before |-> io.stored,
                  inst |-> L,
                  written |-> (\E k \in 1..Len(rc.calls) :
                                  rc.calls[k].op = "exc_write"),
                  same |-> (io.op = "reconcile" /\ io.inst = L)]
    /\ UNCHANGED handlerVars

NextRecon == \E L \in ListedSets : ReconcilePass(L)

SpecRecon == InitRecon /\ [][NextRecon]_vars

\* C14: a pass handed the same listing as the pass before it leaves the
\* stored exception list as that pass left it.
C14_ReconcileTwice ==
    io.op = "reconcile" /\ io.same => io.stored = io.before

C14_Witness ==
    /\ io.op = "reconcile" /\ io.same /\ io.written
    /\ io.stored = io.before /\ Len(io.stored) > 1

\* C15: a pass writes the exception list only when the union holds a date
\* that was not stored before.
C15_WriteOnlyIfGrew ==
    io.op = "reconcile" /\ io.written =>
        ~(Range(io.stored) \subseteq Range(io.before))

\* C16: after a pass the stored dates are exactly the dates stored before
\* together with the original-occurrence dates of the listed instances whose
\* status is cancelled; other instances add nothing, nothing is removed.
OccurrenceDates(L) ==
    {d \in 1..(MaxDay + 1) :
        \E i \in L :
            /\ i.status = "cancelled"
            /\ \/ i.ost.k = "dateTime" /\ d = ParisDate(i.ost.day, i.ost.late)
               \/ i.ost.k = "date" /\ d = i.ost.day}

C16_ExactUnion ==
    io.op = "reconcile" =>
        /\ Range(io.stored) = Range(io.before) \cup OccurrenceDates(io.inst)
        /\ io.stored = SortedSeq(Range(io.stored))

C16_Witness ==
    /\ io.op = "reconcile"
    /\ \E i \in io.inst :
          /\ i.status = "cancelled" /\ i.ost.k = "dateTime" /\ i.ost.late
          /\ ParisDate(i.ost.day, i.ost.late) \notin Range(io.before)
          /\ ParisDate(i.ost.day, i.ost.late) \in Range(io.stored)
    /\ \E i \in io.inst :
          /\ i.status = "confirmed" /\ i.ost.k = "date"
          /\ i.ost.day \notin Range(io.stored)

\* C17: for a session without a recurrence rule the reconciliation only
\* fetches the event: no instance listing and no write of the exception
\* list is made for it, and its exception list stays empty.
C17_NonRecurringOnlyChecked ==
    /\ \A s \in Sessions \ Recurring :
          /\ db[s].exists => ~db[s].rec /\ db[s].exc = <<>>
          /\ batch.pc = "run" /\ batch.obj[s].exists => batch.obj[s].exc = <<>>
    /\ \A i \in CallIdx :
          calls[i].op \in {"list", "exc_write"} => calls[i].sess \in Recurring

C17_Witness ==
    \E i \in CallIdx :
        /\ calls[i].op = "fetch" /\ calls[i].ans = "found"
        /\ calls[i].sess \notin Recurring
        /\ db[calls[i].sess].exists /\ db[calls[i].sess].exc = <<>>

\* C18: a forward sync to a provider changes, of the session it syncs, only
\* that provider's reference, and changes no other session: existence,
\* recurrence rule and the other provider's reference are as before, and so
\* is the exception list unless the reconciliation that precedes a Google
\* sync merged cancelled dates into it.  This holds for runs that succeed
\* and runs that fail.
C18_SyncWritesOnlyItsRef ==
    [][sync'.prov # "-" =>
         \A s \in Sessions :
            LET b == IF batch.pc = "run" THEN batch.obj[s] ELSE db[s]
                a == IF batch'.pc = "run" THEN batch'.obj[s] ELSE db'[s]
            IN  /\ s # sync'.sess => a = b
                /\ a.exists = b.exists /\ a.rec = b.rec
                /\ sync'.prov = "A" => a.gRef = b.gRef /\ a.exc = b.exc
                /\ sync'.prov = "G" =>
                      /\ a.aRef = b.aRef
                      /\ \/ a.exc = b.exc
                         \/ \E k \in 1..Len(calls') : calls'[k].op = "exc_write"
    ]_vars

C18_Witness ==
    /\ sync.prov = "A" /\ sync.ok /\ sync.op = "create"
    /\ StoredRef("A", sync.sess) = sync.returned
    /\ db[sync.sess].gRef # NoRef /\ db[sync.sess].exc # <<>>

\* ------------------------------------------------------------ discovery
\* discover_caldav_server.  A URL or path is a sequence of its parts: an
\* absolute URL is <<scheme, host, path>>, a relative href is <<path>>, the
\* text of an empty href element is <<>>; Missing stands for an absent
\* element.
MaxResources == 2
Hosts == {"h1", "h2"}
Paths == {"/a/", "/b/"}

AbsoluteUrls == {<<"https://", h, p>> : h \in Hosts, p \in Paths}
RelativeHrefs == {<<p>> : p \in Paths}
Missing == <<"missing">>

\* calendar_href.startswith("http")
StartsWithHttp(href) == Len(href) > 0 /\ href[1] = "https://"

\* urlparse(calendar_home): f"{scheme}://{netloc}"
BaseUrl(home) == IF StartsWithHttp(home) THEN <<home[1], home[2]>> ELSE <<"://">>

\* if calendar_href and not calendar_href.startswith("http"):
\*     calendar_href = f"{base_url}{calendar_href}"
ResolveHref(home, href) ==
    IF href # <<>> /\ ~StartsWithHttp(href) THEN BaseUrl(home) \o href ELSE href

\* The child resources of a listing answer: whether the resource type holds
\* cal:calendar, and the href element.
Resources ==
    [cal : BOOLEAN, href : AbsoluteUrls \cup RelativeHrefs \cup {<<>>, Missing}]
Listings == {L \in SUBSET Resources : Cardinality(L) <= MaxResources}

\* if is_calendar and href is not None: calendars.append({"href": ...})
Calendars(home, L) ==
    {[href |-> ResolveHref(home, r.href)] :
        r \in {x \in L : x.cal /\ x.href # Missing}}

StepFailsOnStatusOnly(status, href) == status # 207
\* if response.status_code != 207: raise ...; if not <href>: raise ...
StepFails(status, href) == status # 207 \/ href = Missing \/ href = <<>>

StepOrder == <<"principal", "home", "listing">>

NoDiscovery ==
    [op |-> "discover", pc |-> "idle", sent |-> <<>>, answers |-> <<>>,
     home |-> <<>>, listing |-> {}, result |-> "none", calendars |-> {}]

InitDisc == HandlersIdle /\ io = NoDiscovery

\* The PROPFIND on the server root is sent.
DiscoverStart ==
    /\ io.pc \in {"idle", "failed", "done"}
    /\ io' = [NoDiscovery EXCEPT !.pc = "principal", !.sent = <<"principal">>]
    /\ UNCHANGED handlerVars

\* The answer to the principal lookup; on success the calendar-home lookup
\* is sent to the principal URL.
PrincipalAnswer(status, href) ==
    /\ io.pc = "principal"
    /\ io' = IF StepFails(status, href)
             THEN [io EXCEPT !.pc = "failed", !.result = "error",
                             !.answers = Append(@, [status |-> status, href |-> href])]
             ELSE [io EXCEPT !.pc = "home", !.sent = Append(@, "home"),
                             !.answers = Append(@, [status |-> status, href |-> href])]
    /\ UNCHANGED handlerVars

\* The answer to the calendar-home lookup; on success the listing is
\* requested at the calendar-home URL, which the client refuses to send when
\* that URL has no scheme.
HomeAnswer(status, href) ==
    /\ io.pc = "home"
    /\ io' = IF StepFails(status, href)
             THEN [io EXCEPT !.pc = "failed", !.result = "error",
                             !.answers = Append(@, [status |-> status, href |-> href])]
             ELSE IF ~StartsWithHttp(href)
             THEN [io EXCEPT !.pc = "failed", !.result = "error", !.home = href,
                             !.answers = Append(@, [status |-> status, href |-> href])]
             ELSE [io EXCEPT !.pc = "listing", !.sent = Append(@, "listing"),
                             !.home = href,
                             !.answers = Append(@, [status |-> status, href |-> href])]
    /\ UNCHANGED handlerVars

\* The answer to the listing: the calendars are returned.
ListingAnswer(status, L) ==
    /\ io.pc = "listing"
    /\ io' = IF status # 207
             THEN [io EXCEPT !.pc = "failed", !.result = "error",
                             !.answers = Append(@, [status |-> status, href |-> Missing])]
             ELSE [io EXCEPT !.pc = "done", !.result = "ok", !.listing = L,
                             !.calendars = Calendars(io.home, L),
                             !.answers = Append(@, [status |-> status, href |-> Missing])]
    /\ UNCHANGED handlerVars

NextDisc ==
    \/ DiscoverStart
    \/ \E st \in {207, 401}, h \in RelativeHrefs \cup {<<>>, Missing} :
          PrincipalAnswer(st, h)
    \/ \E st \in {207, 401},
          h \in AbsoluteUrls \cup RelativeHrefs \cup {<<>>, Missing} :
          HomeAnswer(st, h)
    \/ \E st \in {207, 401}, L \in Listings : ListingAnswer(st, L)

SpecDisc == InitDisc /\ [][NextDisc]_vars

\* C19: discovery sends the principal lookup, the calendar-home lookup and
\* the listing in that order, each at most once; a step answered with a
\* status other than 207, or without the href it is asked for, ends the
\* discovery with an error: no later request is sent and no calendar is
\* returned.
C19_DiscoveryOrder ==
    /\ Len(io.sent) <= Len(StepOrder)
    /\ \A k \in 1..Len(io.sent) : io.sent[k] = StepOrder[k]
    /\ \A k \in 1..Len(io.answers) :
          (\/ io.answers[k].status # 207
           \/ k < Len(StepOrder) /\ io.answers[k].href \in {Missing, <<>>})
          => /\ io.pc = "failed" /\ io.result = "error"
             /\ Len(io.sent) = k /\ Len(io.answers) = k
             /\ io.calendars = {}

C19_Witness ==
    /\ io.pc = "failed" /\ Len(io.answers) = 2 /\ io.sent = <<"principal", "home">>
    /\ io.answers[2].status = 207 /\ io.answers[2].href = Missing

\* C20: every calendar discovery returns has an absolute href; a calendar
\* resource listed with a relative href is returned with the scheme and host
\* of the calendar home followed by that path; only resources whose type
\* holds "calendar" are returned.
C20_AbsoluteHrefs ==
    io.result = "ok" =>
        /\ \A c \in io.calendars : c.href \in AbsoluteUrls
        /\ \A r \in io.listing :
              r.cal /\ r.href \in RelativeHrefs =>
                 [href |-> <<io.home[1], io.home[2]>> \o r.href] \in io.calendars
        /\ Cardinality(io.calendars) <= Cardinality({r \in io.listing : r.cal})

\* ------------------------------------------------ recurrence translator
\* build_google_calendar_recurrence(recurrence_type, recurrence_data).
\* recurrence_data is absent (None), the empty string, a text json.loads
\* rejects, a JSON value that is no list, or a JSON list.  A list entry is a
\* string (its lower-case form s, and whether it holds upper-case letters),
\* an integer n, a float with integer part n, a string spelling the integer
\* n, a boolean (n is 1 for true), Infinity or null.
MaxEntries == 2

EnglishDays ==
    <<"monday", "tuesday", "wednesday", "thursday", "friday", "saturday", "sunday">>
FrenchDays ==
    <<"lundi", "mardi", "mercredi", "jeudi", "vendredi", "samedi", "dimanche">>
DayCodes == <<"MO", "TU", "WE", "TH", "FR", "SA", "SU">>

\* day_mapping
DayMapping ==
    [w \in Range(EnglishDays) \cup Range(FrenchDays) |->
        IF w \in Range(EnglishDays)
        THEN DayCodes[CHOOSE i \in 1..7 : EnglishDays[i] = w]
        ELSE DayCodes[CHOOSE i \in 1..7 : FrenchDays[i] = w]]

Entry(t, s, up, n) == [t |-> t, s |-> s, up |-> up, n |-> n]

Entries ==
    {Entry("word", s, up, 0) :
        s \in {"monday", "wednesday", "sunday", "lundi", "mercredi", "abc"},
        up \in BOOLEAN}
    \cup {Entry("int", "", FALSE, n) : n \in {0, 1, 5, 31, 32, 40}}
    \cup {Entry(t, "", FALSE, 5) : t \in {"float", "numstr"}}
    \cup {Entry("bool", "", FALSE, 1), Entry("inf", "", FALSE, 0),
          Entry("null", "", FALSE, 0)}

RECURSIVE SeqsUpTo(_, _)
SeqsUpTo(S, n) ==
    IF n = 0 THEN {<<>>}
    ELSE LET shorter == SeqsUpTo(S, n - 1)
         IN  shorter \cup {Append(q, x) : q \in shorter, x \in S}

RecurrenceData ==
    {[form |-> f, items |-> <<>>] : f \in {"absent", "empty", "unparsable", "nonlist"}}
    \cup {[form |-> "list", items |-> q] : q \in SeqsUpTo(Entries, MaxEntries)}

RecurrenceKinds == {"none", "daily", "weekly", "monthly", "yearly"}

\* ["RRULE:FREQ=<freq>"] or ["RRULE:FREQ=<freq>;BY...=<by, comma separated>"]
Rule(freq, by) == [freq |-> freq, by |-> by]
NoRule == Rule("none", <<>>)
Returned(rule) == [raised |-> FALSE, rule |-> rule]
Raising == [raised |-> TRUE, rule |-> NoRule]

LowerNot(e) == e
\* str(day).lower(): the text of the entry in lower case.
Lower(e) ==
    CASE e.t = "word" -> Entry("word", e.s, FALSE, 0)
      [] e.t = "numstr" -> Entry("word", ToString(e.n), FALSE, 0)
      [] e.t = "int" -> Entry("word", ToString(e.n), FALSE, 0)
      [] e.t = "float" -> Entry("word", ToString(e.n) \o ".7", FALSE, 0)
      [] e.t = "bool" -> Entry("word", "true", FALSE, 0)
      [] e.t = "inf" -> Entry("word", "inf", FALSE, 0)
      [] OTHER -> Entry("word", "none", FALSE, 0)

\* day_str in day_mapping: the key is the exact lower-case text.
InDayMapping(w) == ~w.up /\ w.s \in DOMAIN DayMapping

RECURSIVE ByDay(_)
\* for day in days: ... byday.append(day_mapping[day_str])
ByDay(items) ==
    IF items = <<>> THEN <<>>
    ELSE LET w == Lower(Head(items))
         IN  (IF InDayMapping(w) THEN <<DayMapping[w.s]>> ELSE <<>>)
             \o ByDay(Tail(items))

\* int(day): the integer, ValueError / TypeError, or OverflowError.
IntOf(e) ==
    CASE e.t \in {"int", "float", "numstr", "bool"} -> [err |-> "none", n |-> e.n]
      [] e.t = "inf" -> [err |-> "overflow", n |-> 0]
      [] OTHER -> [err |-> "value", n |-> 0]

RECURSIVE ByMonthDay(_)
\* for day in days: try: day_int = int(day); if 1 <= day_int <= 31: append
\* except (ValueError, TypeError): continue.  Any other exception leaves
\* the loop.
ByMonthDay(items) ==
    IF items = <<>> THEN [raised |-> FALSE, by |-> <<>>]
    ELSE LET c == IntOf(Head(items))
             rest == ByMonthDay(Tail(items))
         IN  IF c.err = "overflow" THEN [raised |-> TRUE, by |-> <<>>]
             ELSE [raised |-> rest.raised,
                   by |-> (IF c.err = "none" /\ 1 <= c.n /\ c.n <= 31
                           THEN <<ToString(c.n)>> ELSE <<>>) \o rest.by]

CatchNothing(freq, r) == r
\* except Exception: return ["RRULE:FREQ=<freq>"]
CatchAll(freq, r) == IF r.raised THEN Returned(Rule(freq, <<>>)) ELSE r

\* The body of a weekly / monthly branch after "if not recurrence_data".
Scoped(freq, data) ==
    CASE data.form = "unparsable" -> Raising
      [] data.form = "nonlist" \/ data.items = <<>> -> Returned(Rule(freq, <<>>))
      [] freq = "WEEKLY" -> Returned(Rule(freq, ByDay(data.items)))
      [] OTHER ->
           LET m == ByMonthDay(data.items)
           IN  IF m.raised THEN Raising ELSE Returned(Rule(freq, m.by))

BuildGoogleCalendarRecurrence(kind, data) ==
    CASE kind = "none" -> Returned(NoRule)
      [] kind = "daily" -> Returned(Rule("DAILY", <<>>))
      [] kind \in {"weekly", "monthly"} ->
           LET freq == IF kind = "weekly" THEN "WEEKLY" ELSE "MONTHLY"
           IN  IF data.form \in {"absent", "empty"}
               THEN Returned(Rule(freq, <<>>))
               ELSE CatchAll(freq, Scoped(freq, data))
      [] OTHER -> Returned(NoRule)

InitRec ==
    /\ HandlersIdle
    /\ \E k \in RecurrenceKinds, d \in RecurrenceData :
         io = [op |-> "translate", pc |-> "input", kind |-> k, data |-> d,
               res |-> Returned(NoRule)]

Translate ==
    /\ io.op = "translate" /\ io.pc = "input"
    /\ io' = [io EXCEPT !.pc = "done",
                        !.res = BuildGoogleCalendarRecurrence(io.kind, io.data)]
    /\ UNCHANGED handlerVars


SpecRec == InitRec /\ [][Translate]_vars

Translated == io.op = "translate" /\ io.pc = "done"

\* An entry that cannot scope a rule of the kind: for weekly a text that is
\* no weekday name, for monthly a non-numeric entry or a number outside
\* 1..31.
Unusable(kind, e) ==
    IF kind = "weekly"
    THEN ~(e.t = "word" /\ e.s \in Range(EnglishDays) \cup Range(FrenchDays))
    ELSE \/ e.t \in {"word", "null", "inf"}
         \/ e.t \in {"int", "numstr", "float"} /\ ~(1 <= e.n /\ e.n <= 31)

\* C21: for the kinds daily, weekly and monthly the translator raises
\* nothing and returns a rule of that kind, whatever the data; when the data
\* is absent, empty, not a list, or a list without a usable entry, the rule
\* is the unscoped one.
C21_TranslatorTotal ==
    Translated /\ io.kind \in {"daily", "weekly", "monthly"} =>
        /\ ~io.res.raised
        /\ io.res.rule.freq = (CASE io.kind = "daily" -> "DAILY"
                                 [] io.kind = "weekly" -> "WEEKLY"
                                 [] OTHER -> "MONTHLY")
        /\ (\/ io.kind = "daily"
            \/ io.data.form # "list"
            \/ \A i \in 1..Len(io.data.items) : Unusable(io.kind, io.data.items[i]))
           => io.res.rule.by = <<>>

C21_Witness ==
    /\ Translated /\ io.kind = "monthly" /\ io.data.form = "list"
    /\ Len(io.data.items) = 2
    /\ io.data.items[1].t = "int" /\ io.data.items[1].n = 40
    /\ io.data.items[2].t = "inf"
    /\ io.res = Returned(Rule("MONTHLY", <<>>))

RECURSIVE WeekdayCodes(_)
WeekdayCodes(items) ==
    IF items = <<>> THEN <<>>
    ELSE LET e == Head(items)
             idx == {i \in 1..7 : e.t = "word" /\ e.s \in {EnglishDays[i], FrenchDays[i]}}
         IN  (IF idx = {} THEN <<>> ELSE <<DayCodes[CHOOSE i \in idx : TRUE]>>)
             \o WeekdayCodes(Tail(items))

\* C22: for kind weekly the rule is the weekly rule scoped to the codes of
\* the English or French weekday names among the entries, in any letter
\* case; without such an entry it is the unscoped weekly rule.
C22_WeeklyScoped ==
    Translated /\ io.kind = "weekly" =>
        io.res = Returned(Rule("WEEKLY", WeekdayCodes(io.data.items)))

C22_Witness ==
    /\ Translated /\ io.kind = "weekly" /\ Len(io.data.items) = 2
    /\ io.data.items[1].s = "monday" /\ io.data.items[1].up
    /\ io.data.items[2].s = "mercredi"
    /\ io.res.rule = Rule("WEEKLY", <<"MO", "WE">>)

RECURSIVE IntegerDays(_)
IntegerDays(items) ==
    IF items = <<>> THEN <<>>
    ELSE LET e == Head(items)
         IN  (IF e.t = "int" /\ 1 <= e.n /\ e.n <= 31 THEN <<ToString(e.n)>> ELSE <<>>)
             \o IntegerDays(Tail(items))

\* C23: for kind monthly the rule is scoped to exactly the entries that are
\* integers in 1..31, every other entry being dropped; when none is kept it
\* is the unscoped monthly rule.
C23_MonthlyKeepsIntegers ==
    Translated /\ io.kind = "monthly" =>
        io.res = Returned(Rule("MONTHLY", IntegerDays(io.data.items)))

\* ------------------------------------------------- event requests
\* The requests that carry an event to a provider: their URL and the
\* document they send.  Texts are sequences of pieces, so that
\* concatenation is \o.
MaxRequests == 3

Collections == {<<"https://cal.example/home/">>, <<"https://cal.example/work">>}
Uids == {"abc-123", "def-456"}

\* The session data the orchestrators hand to the renderers.
SessionInputs ==
    {[id |-> 1, title |-> "Legs", activities |-> <<"musculation">>,
      exercises |-> <<[name |-> "Squat", sets |-> 3]>>, start |-> 600,
      kind |-> "weekly", data |-> [form |-> "list", items |-> <<Entry("word", "monday", FALSE, 0)>>]],
     [id |-> 2, title |-> "Run", activities |-> <<>>, exercises |-> <<>>,
      start |-> 1080, kind |-> "none", data |-> [form |-> "absent", items |-> <<>>]]}

FrontendUrl == "https://app.example"

\* f"{calendar_url}{event_uid}.ics" in create, update and delete.
CreateEventUrl(calendarUrl, eventUid) == calendarUrl \o <<eventUid, ".ics">>
UpdateEventUrl(calendarUrl, eventUid) == calendarUrl \o <<eventUid, ".ics">>
DeleteEventUrlBare(calendarUrl, eventUid) == calendarUrl \o <<eventUid>>
DeleteEventUrl(calendarUrl, eventUid) == calendarUrl \o <<eventUid, ".ics">>

RECURSIVE ActivityLines(_)
ActivityLines(acts) ==
    IF acts = <<>> THEN <<>> ELSE <<"- " \o Head(acts)>> \o ActivityLines(Tail(acts))

RECURSIVE ExerciseLines(_, _)
ExerciseLines(exs, idx) ==
    IF exs = <<>> THEN <<>>
    ELSE <<ToString(idx) \o ". " \o Head(exs).name \o " -> "
             \o ToString(Head(exs).sets) \o " series">>
         \o ExerciseLines(Tail(exs), idx + 1)

\* build_session_description: the lines of the description.
BuildSessionDescription(sessionId, activities, exercises) ==
    (IF activities # <<>>
     THEN <<"ACTIVITES">> \o ActivityLines(activities) \o <<"">> ELSE <<>>)
    \o (IF exercises # <<>>
        THEN <<"EXERCICES PLANIFIES">> \o ExerciseLines(exercises, 1) \o <<"">> ELSE <<>>)
    \o <<"LANCER LA SEANCE",
         FrontendUrl \o "/workout/sessions/" \o ToString(sessionId), "">>

\* description.replace("\n", "\\n"): the lines joined by the escaped break.
RECURSIVE EscapeNewlines(_)
EscapeNewlines(lines) ==
    IF Len(lines) <= 1 THEN lines
    ELSE <<Head(lines), "\\n">> \o EscapeNewlines(Tail(lines))

\* strftime("%Y%m%dT%H%M%S") and isoformat() of a time given in minutes.
FormatDatetime(dt) == "T" \o ToString(dt)
IsoFormat(dt) == ToString(dt) \o ":00"

\* build_icalendar_event: the properties of the VEVENT; now is utcnow().
BuildIcalendarEvent(uid, title, description, startTime, endTime, now) ==
    [uid |-> uid,
     created |-> FormatDatetime(now) \o "Z",
     dtstamp |-> FormatDatetime(now) \o "Z",
     dtstart |-> FormatDatetime(startTime),
     dtend |-> FormatDatetime(endTime),
     lastModified |-> FormatDatetime(now) \o "Z",
     summary |-> title,
     description |-> EscapeNewlines(description)]

\* create_calendar_event: the JSON body; recurrence is present only when
\* the rule is not empty.
EventBody(title, description, startTime, endTime, recurrence) ==
    [summary |-> title, description |-> description,
     start |-> IsoFormat(startTime), end |-> IsoFormat(endTime),
     recurrence |-> recurrence]

Request(prov, verb, uid, inp, url, body) ==
    [prov |-> prov, verb |-> verb, uid |-> uid, inp |-> inp, url |-> url,
     body |-> body]

InitEvent ==
    /\ HandlersIdle
    /\ \E c \in Collections : io = [op |-> "event", collection |-> c, now |-> 0, log |-> <<>>]

\* The clock read by a request: the second of the previous request or a
\* later one.
Clock == {io.now, io.now + 1}

\* create_caldav_event (uid drawn by uuid4) and update_caldav_event (uid the
\* stored reference): PUT of the rendered document; the orchestrator passes
\* no end time, so it is start + 1 h.
PutCaldavEvent(verb, uid, inp, now) ==
    /\ io.op = "event" /\ Len(io.log) < MaxRequests
    /\ io' = [io EXCEPT
          !.now = now,
          !.log = Append(@, Request("A", verb, uid, inp,
                    IF verb = "create" THEN CreateEventUrl(io.collection, uid)
                                       ELSE UpdateEventUrl(io.collection, uid),
                    BuildIcalendarEvent(uid, inp.title,
                        BuildSessionDescription(inp.id, inp.activities, inp.exercises),
                        inp.start, inp.start + 60, now)))]
    /\ UNCHANGED handlerVars

\* delete_caldav_event: DELETE without a body (the input and the document
\* of the logged request are placeholders).
DeleteCaldavRequest(uid, now) ==
    /\ io.op = "event" /\ Len(io.log) < MaxRequests
    /\ io' = [io EXCEPT
          !.now = now,
          !.log = Append(@, Request("A", "delete", uid,
                    CHOOSE i \in SessionInputs : i.id = 1,
                    DeleteEventUrl(io.collection, uid),
                    BuildIcalendarEvent("", "", <<>>, 0, 0, 0)))]
    /\ UNCHANGED handlerVars

\* create_calendar_event: POST of the JSON body; the orchestrator passes no
\* end time, so it is start + 1 h 30.
PostCalendarEvent(inp, now) ==
    /\ io.op = "event" /\ Len(io.log) < MaxRequests
    /\ io' = [io EXCEPT
          !.now = now,
          !.log = Append(@, Request("G", "create", "", inp, <<>>,
                    EventBody(inp.title,
                        BuildSessionDescription(inp.id, inp.activities, inp.exercises),
                        inp.start, inp.start + 90,
                        BuildGoogleCalendarRecurrence(inp.kind, inp.data).rule)))]
    /\ UNCHANGED handlerVars

NextEvent ==
    \/ \E now \in Clock, verb \in {"create", "update"}, uid \in Uids, inp \in SessionInputs :
           PutCaldavEvent(verb, uid, inp, now)
    \/ \E now \in Clock, uid \in Uids : DeleteCaldavRequest(uid, now)
    \/ \E now \in Clock, inp \in SessionInputs : PostCalendarEvent(inp, now)

SpecEvent == InitEvent /\ [][NextEvent]_vars

\* C24: every request for an event of the protocol provider addresses the
\* collection URL followed by the uid followed by ".ics", so create, update
\* and delete of one uid address one URL; collection
\* https://cal.example/home/ and uid abc-123 give
\* https://cal.example/home/abc-123.ics.
C24_EventUrl ==
    /\ CreateEventUrl(<<"https://cal.example/home/">>, "abc-123")
         = <<"https://cal.example/home/", "abc-123", ".ics">>
    /\ io.op = "event" =>
         \A i \in 1..Len(io.log) : io.log[i].prov = "A" =>
            /\ io.log[i].url = io.collection \o <<io.log[i].uid>> \o <<".ics">>
            /\ \A j \in 1..Len(io.log) :
                  io.log[j].prov = "A" /\ io.log[j].uid = io.log[i].uid
                     => io.log[j].url = io.log[i].url

C24_Witness ==
    /\ io.op = "event" /\ Len(io.log) = 3
    /\ io.collection = <<"https://cal.example/home/">>
    /\ io.log[1].verb = "create" /\ io.log[2].verb = "update" /\ io.log[3].verb = "delete"
    /\ \A i \in 1..3 : io.log[i].prov = "A" /\ io.log[i].uid = "abc-123"
                       /\ io.log[i].url = <<"https://cal.example/home/", "abc-123", ".ics">>

\* C25: two requests of one provider that render the same input (uid,
\* title, description, start, end, recurrence) carry the same document,
\* also when they are rendered at different moments.
C25_RenderersDeterministic ==
    io.op = "event" =>
        \A i, j \in 1..Len(io.log) :
            /\ io.log[i].prov = io.log[j].prov
            /\ io.log[i].verb # "delete" /\ io.log[j].verb # "delete"
            /\ io.log[i].uid = io.log[j].uid /\ io.log[i].inp = io.log[j].inp
            => io.log[i].body = io.log[j].body

\* ------------------------------------------------------- provider links
\* The link fields of one user with their values ("" is None), under the
\* four requests that write them.
Tokens == {"t1", "t2"}
AppleIds == {"a@icloud", "b@icloud"}
CalendarHrefs == {"https://caldav/1/", "https://caldav/2/"}
MaxCalendars == 2

NoLink == [gConn |-> FALSE, gTok |-> "",
           aConn |-> FALSE, aId |-> "", aPw |-> "", aUrl |-> ""]

\* What discover_caldav_server hands back: it raised, or the calendars
\* found, each with a name class and an href (None when the server sent
\* an empty href element).
DiscoveredCalendars ==
    {[name |-> "sport", href |-> "https://caldav/1/"],
     [name |-> "ecole", href |-> "https://caldav/2/"],
     [name |-> "maison", href |-> ""]}
Discoveries ==
    {[raised |-> TRUE, calendars |-> <<>>]}
    \cup {[raised |-> FALSE, calendars |-> cs] : cs \in SeqsUpTo(DiscoveredCalendars, MaxCalendars)}

RECURSIVE SelectNamed(_, _)
SelectNamed(cals, names) ==
    IF cals = <<>> THEN <<>>
    ELSE (IF Head(cals).name \in names THEN <<Head(cals)>> ELSE <<>>)
         \o SelectNamed(Tail(cals), names)

\* The calendar connect_apple_calendar picks: the given URL, else the first
\* sport calendar, else the first that is not a school or work calendar,
\* else the first; None without calendars.
PickCalendarAny(reqUrl, cals) == IF reqUrl # "" THEN reqUrl ELSE "https://caldav/1/"
PickCalendar(reqUrl, cals) ==
    IF reqUrl # "" \/ cals = <<>> THEN reqUrl
    ELSE LET sport == SelectNamed(cals, {"sport"})
             other == SelectNamed(cals, {"sport", "maison"})
         IN  IF sport # <<>> THEN sport[1].href
             ELSE IF other # <<>> THEN other[1].href
             ELSE cals[1].href

\* att: what the request met (the answer of the exchange, or the discovery
\* and the URL given); before: the link when the request arrived.
Attempt(x, d, reqUrl) == [x |-> x, d |-> d, reqUrl |-> reqUrl]
NoAttempt == Attempt("", [raised |-> FALSE, calendars |-> <<>>], "")
LinkIo(link, req, att, status, before) ==
    [op |-> "link", link |-> link, req |-> req, att |-> att,
     status |-> status, before |-> before]

InitLink ==
    /\ HandlersIdle
    /\ io = LinkIo(NoLink, "none", NoAttempt, 0, NoLink)

\* google_calendar_callback; x: the exchange was rejected, answered without
\* a refresh token, or answered with one.
GoogleCallbackLink(x) ==
    /\ io.op = "link"
    /\ io' = IF x = "rejected" \/ x = "no_refresh"
             THEN LinkIo(io.link, "g_callback", Attempt(x, NoAttempt.d, ""), 400, io.link)
             ELSE LinkIo([io.link EXCEPT !.gTok = x, !.gConn = TRUE],
                         "g_callback", Attempt(x, NoAttempt.d, ""), 200, io.link)
    /\ UNCHANGED handlerVars

DisconnectGoogleFlagOnly(link) == [link EXCEPT !.gConn = FALSE]
DisconnectGoogleWrites(link) == [link EXCEPT !.gTok = "", !.gConn = FALSE]

\* disconnect_google_calendar
DisconnectGoogleLink ==
    /\ io.op = "link"
    /\ io' = LinkIo(DisconnectGoogleWrites(io.link), "g_disconnect", NoAttempt, 200, io.link)
    /\ UNCHANGED handlerVars

\* connect_apple_calendar
ConnectAppleLink(id, pw, reqUrl, d) ==
    /\ io.op = "link"
    /\ LET url == PickCalendar(reqUrl, d.calendars)
       IN  io' = IF d.raised \/ url = ""
                 THEN LinkIo(io.link, "a_connect", Attempt("", d, reqUrl), 400, io.link)
                 ELSE LinkIo([io.link EXCEPT !.aId = id, !.aPw = pw, !.aUrl = url,
                                             !.aConn = TRUE],
                             "a_connect", Attempt("", d, reqUrl), 200, io.link)
    /\ UNCHANGED handlerVars

\* disconnect_apple_calendar
DisconnectAppleLink ==
    /\ io.op = "link"
    /\ io' = LinkIo([io.link EXCEPT !.aId = "", !.aPw = "", !.aUrl = "",
                                    !.aConn = FALSE],
                    "a_disconnect", NoAttempt, 200, io.link)
    /\ UNCHANGED handlerVars

NextLink ==
    \/ \E x \in {"rejected", "no_refresh"} \cup Tokens : GoogleCallbackLink(x)
    \/ DisconnectGoogleLink
    \/ \E id \in AppleIds, pw \in {"pw1"}, reqUrl \in {""} \cup CalendarHrefs,
          d \in Discoveries : ConnectAppleLink(id, pw, reqUrl, d)
    \/ DisconnectAppleLink

SpecLink == InitLink /\ [][NextLink]_vars

\* C26: after any sequence of connect, failed connect and disconnect
\* requests the REST link is marked connected only while a refresh token is
\* stored, the protocol link only while account id, app password and
\* collection URL are all stored, and a disconnect leaves the flag and
\* every secret of its provider cleared.
C26_LinkConsistent ==
    io.op = "link" =>
        /\ io.link.gConn => io.link.gTok # ""
        /\ io.link.aConn => io.link.aId # "" /\ io.link.aPw # "" /\ io.link.aUrl # ""
        /\ io.req = "g_disconnect" => ~io.link.gConn /\ io.link.gTok = ""
        /\ io.req = "a_disconnect" =>
              ~io.link.aConn /\ io.link.aId = "" /\ io.link.aPw = "" /\ io.link.aUrl = ""

C26_Witness ==
    /\ io.op = "link" /\ io.req = "g_disconnect"
    /\ io.before.gConn /\ io.before.gTok \in Tokens
    /\ io.link.aConn /\ ~io.link.gConn

\* The connect attempts that fail: the exchange is rejected or answers
\* without a refresh token; discovery raises, or it yields no calendar and
\* the request carries no URL.
FailedAttempt ==
    \/ io.req = "g_callback" /\ io.att.x \in {"rejected", "no_refresh"}
    \/ io.req = "a_connect" /\ (io.att.d.raised
                                \/ (io.att.d.calendars = <<>> /\ io.att.reqUrl = ""))

\* C27: a connect attempt that fails ends as a request error and leaves the
\* stored link as it was before the attempt.
C27_FailedConnectKeepsLink ==
    io.op = "link" /\ FailedAttempt =>
        io.status >= 400 /\ io.link = io.before

C27_Witness ==
    /\ io.op = "link" /\ io.req = "a_connect" /\ io.status = 400
    /\ ~io.att.d.raised /\ io.att.d.calendars = <<>> /\ io.att.reqUrl = ""
    /\ io.before.aConn /\ io.before.gConn /\ io.link = io.before

\* The session objects as the handlers hold them: those of the running
\* batch until it commits, the stored ones otherwise.
Held(b, d, s) == IF b.pc = "run" THEN b.obj[s] ELSE d[s]

\* C28: no step of a batch or single-session sync sets a non-empty stored
\* reference back to empty while the session exists: a sync that returns no
\* reference leaves the stored one in place.
C28_RefNeverCleared ==
    [][\A s \in Sessions :
          LET b == Held(batch, db, s)
              a == Held(batch', db', s)
          IN  a.exists =>
                 /\ b.gRef # NoRef => a.gRef # NoRef
                 /\ b.aRef # NoRef => a.aRef # NoRef
    ]_vars

C28_Witness ==
    /\ sync.prov = "G" /\ sync.given # NoRef /\ sync.returned = NoRef
    /\ db[sync.sess].exists /\ db[sync.sess].gRef = sync.given
    /\ ret.h = "singleG" /\ ret.status = 500

\* A step of the loop of a batch sync that ran the orchestrator.
BatchRan == batch.pc = "run" /\ batch'.pc = "run" /\ sync'.prov # "-"

\* C29: a batch starts its synced count at 0 and a step of its loop raises
\* it, by one, only when the orchestrator returned a non-empty reference
\* that differs from the one stored before the call; a step that is a
\* successful update leaves the count alone; the response reports this
\* count, and as total the number of planned sessions.  So a batch in which
\* every session is updated successfully reports synced = 0.
C29_SyncedCountsNewRefs ==
    [][/\ batch.pc = "idle" /\ batch'.pc = "run" =>
             batch'.synced = 0
             /\ batch'.total = Cardinality({s \in Sessions : db[s].exists})
       /\ batch.pc = "run" /\ batch'.pc = "run" =>
             /\ batch'.synced \in {batch.synced, batch.synced + 1}
             /\ batch'.total = batch.total
             /\ batch'.synced # batch.synced =>
                   /\ sync'.prov = batch.prov /\ sync'.sess = Head(batch.todo)
                   /\ sync'.returned # NoRef
                   /\ sync'.returned # (IF batch.prov = "G"
                                        THEN batch.obj[sync'.sess].gRef
                                        ELSE batch.obj[sync'.sess].aRef)
       /\ BatchRan /\ sync'.op = "update" /\ sync'.ok =>
             batch'.synced = batch.synced
       /\ batch.pc = "run" /\ batch'.pc = "idle" =>
             ret'.synced = batch.synced /\ ret'.total = batch.total
    ]_vars

C29_Witness ==
    /\ BatchReturned /\ ret.total = NumSessions /\ ret.synced = 0
    /\ \A j \in ret.loaded : ret.outcome[j] = "ok" /\ ret.returned[j] # NoRef

\* ------------------------------------------------------ session delete
\* delete_session of the session routes, for one session of a user whose
\* links are as the link requests leave them.
Links ==
    {[gConn |-> g, gTok |-> g, aConn |-> a, aId |-> a, aPw |-> a, aUrl |-> a] :
        g \in BOOLEAN, a \in BOOLEAN}
SessionRows ==
    {[exists |-> TRUE, gRef |-> g, aRef |-> a] : g \in {"", "g1"}, a \in {"", "a1"}}
NoRow == [exists |-> FALSE, gRef |-> "", aRef |-> ""]

\* What the external delete of a provider meets: the token refresh fails or
\* yields no access token (REST only), the request raises, or the provider
\* answers with a status.
RemoveOutcomes(p) ==
    IF p = "G"
    THEN {[at |-> "refresh", status |-> 0], [at |-> "no_token", status |-> 0],
          [at |-> "raise", status |-> 0], [at |-> "answer", status |-> 204],
          [at |-> "answer", status |-> 404], [at |-> "answer", status |-> 500]}
    ELSE {[at |-> "raise", status |-> 0], [at |-> "answer", status |-> 204],
          [at |-> "answer", status |-> 404], [at |-> "answer", status |-> 500]}

\* delete_session_from_calendar / delete_session_from_apple_calendar: every
\* exception is swallowed and becomes False.
DeleteSessionFrom(p, o) ==
    IF o.at = "answer" THEN DeleteResult(p, o.status) ELSE FALSE

\* The conditions under which delete_session calls the wrapper of p.
DeletesAtConnected(p, link, row) ==
    IF p = "G" THEN link.gConn /\ link.gTok ELSE link.aConn /\ link.aId /\ link.aUrl
DeletesAt(p, link, row) ==
    IF p = "G" THEN link.gConn /\ link.gTok /\ row.gRef # ""
    ELSE link.aConn /\ link.aId /\ link.aUrl /\ row.aRef # ""

Step(what, ref, out, result) == [what |-> what, ref |-> ref, out |-> out, result |-> result]
LocalDelete == Step("local", "", [at |-> "answer", status |-> 0], TRUE)

RemoveIo(link, rows, sess, status, log, before) ==
    [op |-> "remove", link |-> link, rows |-> rows, sess |-> sess,
     status |-> status, log |-> log, before |-> before]

InitRemove ==
    /\ HandlersIdle
    /\ \E link \in Links, rows \in [Sessions -> SessionRows] :
          io = RemoveIo(link, rows, 0, 0, <<>>, NoRow)

\* delete_session for a session that exists: the external deletes, then
\* SessionService.delete_session; the route answers 204.
DeleteSession(s, og, oa) ==
    /\ io.op = "remove" /\ io.rows[s].exists
    /\ og \in RemoveOutcomes("G") /\ oa \in RemoveOutcomes("A")
    /\ LET row == io.rows[s]
       IN  io' = RemoveIo(io.link, [io.rows EXCEPT ![s] = NoRow], s, 204,
                (IF DeletesAt("G", io.link, row)
                 THEN <<Step("G", row.gRef, og, DeleteSessionFrom("G", og))>> ELSE <<>>)
                \o (IF DeletesAt("A", io.link, row)
                    THEN <<Step("A", row.aRef, oa, DeleteSessionFrom("A", oa))>> ELSE <<>>)
                \o <<LocalDelete>>,
                row)
    /\ UNCHANGED handlerVars

\* delete_session for a session that is not there: 404 before any call.
DeleteSessionMissing(s) ==
    /\ io.op = "remove" /\ ~io.rows[s].exists
    /\ io' = RemoveIo(io.link, io.rows, s, 404, <<>>, io.rows[s])
    /\ UNCHANGED handlerVars

NextRemove ==
    \/ \E s \in Sessions, og \in RemoveOutcomes("G"), oa \in RemoveOutcomes("A") :
          DeleteSession(s, og, oa)
    \/ \E s \in Sessions : DeleteSessionMissing(s)

SpecRemove == InitRemove /\ [][NextRemove]_vars

Removed == io.op = "remove" /\ io.status = 204

\* C30: deleting a session attempts the external delete on exactly the
\* providers for which the user is connected and the session carries a
\* reference, with that reference, before the local deletion; the session
\* is removed locally whether those deletes succeed, report failure or
\* raise.
C30_ExternalThenLocal ==
    Removed =>
        /\ io.before.exists /\ ~io.rows[io.sess].exists
        /\ io.log[Len(io.log)] = LocalDelete
        /\ \A i \in 1..(Len(io.log) - 1) : io.log[i].what \in {"G", "A"}
        /\ (io.link.gConn /\ io.before.gRef # "")
              <=> \E i \in 1..Len(io.log) :
                     io.log[i].what = "G" /\ io.log[i].ref = io.before.gRef
        /\ (io.link.aConn /\ io.before.aRef # "")
              <=> \E i \in 1..Len(io.log) :
                     io.log[i].what = "A" /\ io.log[i].ref = io.before.aRef

C30_Witness ==
    /\ Removed /\ Len(io.log) = 3 /\ ~io.rows[io.sess].exists
    /\ io.log[1].what = "G" /\ io.log[1].out.at = "refresh" /\ ~io.log[1].result
    /\ io.log[2].what = "A" /\ io.log[2].out.status = 500 /\ ~io.log[2].result
    /\ io.log[3] = LocalDelete
====
